---------------------------- MODULE Spec2Model ----------------------------
(***************************************************************************)
(* Model of services/ml-service/app.py, the flight price prediction        *)
(* service.                                                                *)
(*                                                                         *)
(* Two specifications share this module.                                   *)
(*   PriceSpec  the request -> response functions of /predict and          *)
(*              /predict/batch: feature extraction, the domestic override, *)
(*              floor and rounding.  The inputs (request bodies and the    *)
(*              model's raw outputs) are drawn in the initial state.       *)
(*   Spec       the life cycle of the global model reference and of the    *)
(*              persisted artifact: start-up, train_model step by step,    *)
(*              and request threads running the handlers concurrently.     *)
(*                                                                         *)
(* Representation.                                                         *)
(*   - A Python str is a sequence of one-character strings, so that        *)
(*     str.upper() is computed character by character.  Dates are kept as  *)
(*     TLA+ strings; strptime is the Calendar table restricted to the      *)
(*     dates drawn.                                                        *)
(*   - A Python dict is a function; a key is present iff it is in the      *)
(*     function's DOMAIN.  In a response a key whose value is None (JSON   *)
(*     null) is left out of the DOMAIN.                                    *)
(*   - Prices are integers counting thousandths of a dollar (mills), so    *)
(*     that round(x, 2) is a real conversion.                              *)
(***************************************************************************)
EXTENDS Integers, Sequences, FiniteSets, TLC

VARIABLES
    \* ---- PriceSpec ----
    body,        \* the JSON body of the /predict/batch request (a dict)
    raws,        \* raws[i]: what model.predict returns for item i, or Raises
    batchResp,   \* response of /predict/batch, NoResp before the call
    singleResp,  \* singleResp[i]: response of /predict called with flight i
    \* ---- Spec ----
    model,       \* the module global `model`
    artifact,    \* the file model/flight_price_model.joblib
    pc,          \* pc[t]: where thread t is; "ok", "bad_request", "not_found" and
                 \* "error" are a handler's return with status 200, 400, 404, 500
    req,         \* req[t]: the request thread t is handling
    started,     \* started[t]: value of `model` when t's train_model run began
    nextGen      \* number of RandomForestRegressor objects constructed so far

priceVars == <<body, raws, batchResp, singleResp>>
svcVars   == <<model, artifact, pc, req, started, nextGen>>
vars      == <<body, raws, batchResp, singleResp,
               model, artifact, pc, req, started, nextGen>>

-----------------------------------------------------------------------------
(* Bounds *)

\* longest list of flights in a batch body
MaxFlights == 2
\* number of request threads
MaxThreads == 2
\* cap on the number of regressors constructed in one run of the service
MaxGen == 2

-----------------------------------------------------------------------------
(* Python values *)

Max(a, b) == IF a >= b THEN a ELSE b
Min(a, b) == IF a <= b THEN a ELSE b

\* dict.get(key, default)
Get(d, k, default) == IF k \in DOMAIN d THEN d[k] ELSE default

LowerToUpper ==
    [c \in {"a","b","c","d","e","f","g","h","i","j","k","l","m",
            "n","o","p","q","r","s","t","u","v","w","x","y","z"} |->
       CASE c = "a" -> "A" [] c = "b" -> "B" [] c = "c" -> "C" [] c = "d" -> "D"
         [] c = "e" -> "E" [] c = "f" -> "F" [] c = "g" -> "G" [] c = "h" -> "H"
         [] c = "i" -> "I" [] c = "j" -> "J" [] c = "k" -> "K" [] c = "l" -> "L"
         [] c = "m" -> "M" [] c = "n" -> "N" [] c = "o" -> "O" [] c = "p" -> "P"
         [] c = "q" -> "Q" [] c = "r" -> "R" [] c = "s" -> "S" [] c = "t" -> "T"
         [] c = "u" -> "U" [] c = "v" -> "V" [] c = "w" -> "W" [] c = "x" -> "X"
         [] c = "y" -> "Y" [] c = "z" -> "Z"]

\* str.upper()
Upper(s) ==
    [i \in 1..Len(s) |-> IF s[i] \in DOMAIN LowerToUpper THEN LowerToUpper[s[i]] ELSE s[i]]

\* round(x, 2) of a non-negative price in mills: the nearest cent, a tie to
\* the even cent (the inputs drawn below hold no tie)
Round2(x) ==
    LET q == x \div 10
        r == x % 10
    IN  IF r < 5 THEN q * 10
        ELSE IF r > 5 THEN (q + 1) * 10
        ELSE IF q % 2 = 0 THEN q * 10 ELSE (q + 1) * 10

IST == <<"I","S","T">>
SAW == <<"S","A","W">>
ESB == <<"E","S","B">>
ADB == <<"A","D","B">>
AYT == <<"A","Y","T">>
BJV == <<"B","J","V">>
DLM == <<"D","L","M">>
TZX == <<"T","Z","X">>
GZT == <<"G","Z","T">>
VAN == <<"V","A","N">>
JFK == <<"J","F","K">>
LAX == <<"L","A","X">>
LHR == <<"L","H","R">>
CDG == <<"C","D","G">>
FRA == <<"F","R","A">>
AMS == <<"A","M","S">>
DXB == <<"D","X","B">>

-----------------------------------------------------------------------------
(* Distance lookup *)

AIRPORT_DISTANCES ==
    [k \in {<<IST, SAW>>, <<IST, ESB>>, <<IST, ADB>>, <<IST, AYT>>, <<IST, BJV>>,
            <<IST, DLM>>, <<IST, TZX>>, <<IST, GZT>>, <<IST, VAN>>, <<IST, JFK>>,
            <<IST, LAX>>, <<IST, LHR>>, <<IST, CDG>>, <<IST, FRA>>, <<IST, AMS>>,
            <<IST, DXB>>, <<ADB, SAW>>, <<ADB, ESB>>, <<ESB, AYT>>, <<AYT, SAW>>} |->
       CASE k = <<IST, SAW>> -> 50
         [] k = <<IST, ESB>> -> 350
         [] k = <<IST, ADB>> -> 330
         [] k = <<IST, AYT>> -> 480
         [] k = <<IST, BJV>> -> 520
         [] k = <<IST, DLM>> -> 600
         [] k = <<IST, TZX>> -> 880
         [] k = <<IST, GZT>> -> 850
         [] k = <<IST, VAN>> -> 1200
         [] k = <<IST, JFK>> -> 8000
         [] k = <<IST, LAX>> -> 11000
         [] k = <<IST, LHR>> -> 2500
         [] k = <<IST, CDG>> -> 2200
         [] k = <<IST, FRA>> -> 1800
         [] k = <<IST, AMS>> -> 2200
         [] k = <<IST, DXB>> -> 3000
         [] k = <<ADB, SAW>> -> 290
         [] k = <<ADB, ESB>> -> 450
         [] k = <<ESB, AYT>> -> 350
         [] k = <<AYT, SAW>> -> 400]

get_distance(from_airport, to_airport) ==
    LET key == <<from_airport, to_airport>>
        reverse_key == <<to_airport, from_airport>>
    IN  IF key \in DOMAIN AIRPORT_DISTANCES THEN AIRPORT_DISTANCES[key]
        ELSE IF reverse_key \in DOMAIN AIRPORT_DISTANCES THEN AIRPORT_DISTANCES[reverse_key]
        ELSE 500

-----------------------------------------------------------------------------
(* Feature extraction *)

\* The clock.  datetime.now() is a moment of Today after midnight.
Today == [ordinal |-> 739161, month |-> 10, weekday |-> 2, day |-> 2]
TodayStr == "2024-10-02"

\* datetime.strptime(s, '%Y-%m-%d') for the date strings drawn below; any
\* other string raises ValueError
Calendar ==
    [s \in {"2024-10-02", "2024-10-05", "2024-12-25", "2024-07-15"} |->
       CASE s = "2024-10-02" -> Today
         [] s = "2024-10-05" -> [ordinal |-> 739164, month |-> 10, weekday |-> 5, day |-> 5]
         [] s = "2024-12-25" -> [ordinal |-> 739245, month |-> 12, weekday |-> 2, day |-> 25]
         [] s = "2024-07-15" -> [ordinal |-> 739082, month |-> 7,  weekday |-> 0, day |-> 15]]

\* (date_obj - datetime.now()).days.  A parsed date is a midnight and now is
\* later than Today's midnight, so the difference in whole days is floored
\* one below the difference of the dates; the fallback date_obj is an
\* earlier now(), a fraction of a second back: -1 day.
DaysDelta(parsed, departure_date) ==
    IF parsed THEN Calendar[departure_date].ordinal - Today.ordinal - 1 ELSE 0 - 1

domestic_airports == {IST, SAW, ESB, ADB, AYT, BJV, DLM, TZX, GZT, VAN}

IsInternational(from_airport, to_airport) ==
    IF from_airport \in domestic_airports /\ to_airport \in domestic_airports THEN 0 ELSE 1

extract_features(data) ==
    LET from_airport == Get(data, "fromAirport", IST)
        to_airport == Get(data, "toAirport", SAW)
        departure_date == Get(data, "departureDate", TodayStr)
        duration_minutes == Get(data, "durationMinutes", 90)
        parsed == departure_date \in DOMAIN Calendar
        date_obj == IF parsed THEN Calendar[departure_date] ELSE Today
        delta == DaysDelta(parsed, departure_date)
        days_until == IF delta < 0 THEN 0 ELSE delta
    IN  [duration_minutes |-> duration_minutes,
         month |-> date_obj.month,
         day_of_week |-> date_obj.weekday,
         day_of_month |-> date_obj.day,
         days_until_departure |-> days_until,
         is_weekend |-> IF date_obj.weekday >= 5 THEN 1 ELSE 0,
         is_peak_season |-> IF date_obj.month \in {6, 7, 8, 12} THEN 1 ELSE 0,
         distance |-> get_distance(from_airport, to_airport),
         is_international |-> IsInternational(from_airport, to_airport)]

-----------------------------------------------------------------------------
(* /predict *)

EmptyDict == << >>
NoResp == [status |-> 0]

\* model.predict(X)[0]: a raw price, or an exception (NotFittedError, ...)
Returned(y) == [raised |-> FALSE, y |-> y]
Raised == [raised |-> TRUE]

\* the route test of the domestic override
is_domestic(data) ==
    LET from_airport == Upper(Get(data, "fromAirport", << >>))
        to_airport == Upper(Get(data, "toAirport", << >>))
    IN  from_airport \in domestic_airports /\ to_airport \in domestic_airports

\* adjusted_price of the domestic override, in mills
AdjustedPrice(features) ==
    LET base == 40000 + features.distance * 5 + features.duration_minutes * 100
        peak == IF features.is_peak_season # 0 THEN 20000 ELSE 0
        weekend == IF features.is_weekend # 0 THEN 10000 ELSE 0
        late == IF features.days_until_departure < 7
                THEN (7 - features.days_until_departure) * 2000 ELSE 0
    IN  base + peak + weekend + late

\* the body of `if is_domestic and predicted_price > 80:`
DomesticOverride(features, predicted_price) ==
    Min(Min(predicted_price, Max(AdjustedPrice(features), 35000)), 85000)

\* round(max(predicted_price, 30), 2)
FloorAndRound(predicted_price) == Round2(Max(predicted_price, 30000))

\* predictedPrice of /predict, given the raw model output
PredictedPrice(data, features, raw) ==
    FloorAndRound(IF is_domestic(data) /\ raw > 80000
                  THEN DomesticOverride(features, raw)
                  ELSE raw)

predict(data, out) ==
    IF DOMAIN data = {}
    THEN [status |-> 400, success |-> FALSE, error |-> "No data provided"]
    ELSE IF out.raised
    THEN [status |-> 500, success |-> FALSE, error |-> "exception"]
    ELSE LET features == extract_features(data)
         IN  [status |-> 200, success |-> TRUE,
              predictedPrice |-> PredictedPrice(data, features, out.y),
              currency |-> "USD",
              features |-> features,
              confidence |-> 850]

-----------------------------------------------------------------------------
(* /predict/batch *)

\* BatchPrediction as it would be if the echoed fields were the defaulted
\* values of extract_features instead of flight.get(k)
BatchPredictionDefaulted(flight, y) ==
    [fromAirport |-> Get(flight, "fromAirport", IST),
     toAirport |-> Get(flight, "toAirport", SAW),
     departureDate |-> Get(flight, "departureDate", TodayStr),
     predictedPrice |-> FloorAndRound(y)]

\* flight.get(k) for the three echoed keys: a missing key gives None, which
\* leaves the key out of the prediction's DOMAIN
BatchPrediction(flight, y) ==
    [k \in ({"fromAirport", "toAirport", "departureDate"} \cap DOMAIN flight)
             \cup {"predictedPrice"} |->
        IF k = "predictedPrice" THEN FloorAndRound(y) ELSE flight[k]]

\* the loop over data['flights']: predictions.append(...) per flight, in order
BatchPredictions(flights, outs) ==
    [i \in 1..Len(flights) |-> BatchPrediction(flights[i], outs[i].y)]

predict_batch(data, outs) ==
    IF DOMAIN data = {} \/ "flights" \notin DOMAIN data
    THEN [status |-> 400, success |-> FALSE, error |-> "No flights data provided"]
    ELSE IF \E i \in 1..Len(data.flights) : outs[i].raised
    THEN [status |-> 500, success |-> FALSE, error |-> "exception"]
    ELSE [status |-> 200, success |-> TRUE,
          predictions |-> BatchPredictions(data.flights, outs)]

-----------------------------------------------------------------------------
(* PriceSpec: the inputs *)

ist == <<"i","s","t">>
saw == <<"s","a","w">>

\* values of fromAirport / toAirport
AirportValues == {IST, SAW, VAN, JFK, ist, saw}
\* values of departureDate; the last one does not parse
DateValues == {"2024-10-05", "2024-12-25", "2024-07-15", "next week"}
\* values of durationMinutes
DurationValues == {0 - 100, 60, 600}
\* raw model outputs, in mills
RawPrices == {25000, 79994, 80004, 84996, 85004, 120000, 250000}

\* dicts with any subset of a flight's four keys
Dicts(A, D, M) ==
    LET Opt(k, S) == {EmptyDict} \cup {[x \in {k} |-> v] : v \in S}
    IN  {a @@ b @@ c @@ d :
            a \in Opt("fromAirport", A), b \in Opt("toAirport", A),
            c \in Opt("departureDate", D), d \in Opt("durationMinutes", M)}

Flights == Dicts(AirportValues, DateValues, DurationValues)
Outcomes == {Raised} \cup {Returned(y) : y \in RawPrices}

\* the flights and outcomes of the batches of two or more items
BatchFlights ==
    {[fromAirport |-> IST, toAirport |-> SAW, departureDate |-> "2024-12-25"],
     [fromAirport |-> ist, toAirport |-> saw, departureDate |-> "2024-10-05"],
     [fromAirport |-> IST, toAirport |-> JFK, departureDate |-> "2024-07-15"],
     [departureDate |-> "next week", durationMinutes |-> 600],
     [toAirport |-> VAN]}
BatchOutcomes == {Raised, Returned(25000), Returned(120000)}

SeqsOf(S, n) == [1..n -> S]

PInit ==
    /\ \E n \in 0..MaxFlights :
         \/ /\ n = 0
            /\ body \in {EmptyDict, [flights |-> << >>]}
            /\ raws = << >>
         \/ /\ n = 1
            /\ \E f \in Flights : body = [flights |-> <<f>>]
            /\ \E o \in Outcomes : raws = <<o>>
         \/ /\ n >= 2
            /\ \E fs \in SeqsOf(BatchFlights, n) : body = [flights |-> fs]
            /\ raws \in SeqsOf(BatchOutcomes, n)
    /\ batchResp = NoResp
    /\ singleResp = [i \in 1..Len(raws) |-> NoResp]
    /\ model = [none |-> FALSE, gen |-> 0, fitted |-> TRUE]
    /\ artifact = [state |-> "valid", gen |-> 0, fitted |-> TRUE]
    /\ pc = << >>
    /\ req = << >>
    /\ started = << >>
    /\ nextGen = 0

\* POST /predict/batch with `body`
PredictBatch ==
    /\ batchResp = NoResp
    /\ batchResp' = predict_batch(body, raws)
    /\ UNCHANGED <<body, raws, singleResp>>
    /\ UNCHANGED svcVars

\* POST /predict with the i-th flight of `body` as its body
Predict(i) ==
    /\ singleResp[i] = NoResp
    /\ singleResp' = [singleResp EXCEPT ![i] = predict(body.flights[i], raws[i])]
    /\ UNCHANGED <<body, raws, batchResp>>
    /\ UNCHANGED svcVars

PNext ==
    \/ PredictBatch
    \/ \E i \in 1..Len(raws) : Predict(i)

PriceSpec == PInit /\ [][PNext]_vars

-----------------------------------------------------------------------------
(* Properties of the request -> response functions (PriceSpec) *)

Flight(i) == body.flights[i]
SingleOk(i) == singleResp[i].status = 200
BatchOk == batchResp.status = 200
EchoedKeys == {"fromAirport", "toAirport", "departureDate"}

\* the route of a request, with the request's documented defaults: domestic
\* iff both endpoints are in the fixed 10-code set
RouteIsDomestic(data) ==
    /\ Get(data, "fromAirport", IST) \in domestic_airports
    /\ Get(data, "toAirport", SAW) \in domestic_airports

\* both airport fields are sent and are codes of the domestic set
SentDomestic(data) ==
    /\ "fromAirport" \in DOMAIN data /\ data.fromAirport \in domestic_airports
    /\ "toAirport" \in DOMAIN data /\ data.toAirport \in domestic_airports

\* C1: for every /predict request whose route is domestic and every raw
\* model output, the predicted price returned is at least 30 and at most 85.
C1_DomesticPriceBounded ==
    \A i \in 1..Len(singleResp) :
        (SingleOk(i) /\ RouteIsDomestic(Flight(i)))
            => /\ singleResp[i].predictedPrice >= 30000
               /\ singleResp[i].predictedPrice <= 85000

\* What the code does guarantee: the bounds hold whenever the override's own
\* route test passes, in particular when both codes are sent in upper case.
OverrideRouteBounded ==
    \A i \in 1..Len(singleResp) :
        (SingleOk(i) /\ (is_domestic(Flight(i)) \/ SentDomestic(Flight(i))))
            => /\ singleResp[i].predictedPrice >= 30000
               /\ singleResp[i].predictedPrice <= 85000

\* C8: a successful batch prediction returns one prediction per input
\* flight, in input order, and the i-th prediction echoes the i-th flight's
\* fromAirport, toAirport and departureDate as sent: a field that was sent
\* comes back unchanged, a field that was not sent comes back null, never a
\* default.
C8_BatchEchoesInputs ==
    BatchOk =>
        /\ Len(batchResp.predictions) = Len(body.flights)
        /\ \A i \in 1..Len(body.flights) : \A k \in EchoedKeys :
              IF k \in DOMAIN Flight(i)
              THEN /\ k \in DOMAIN batchResp.predictions[i]
                   /\ batchResp.predictions[i][k] = Flight(i)[k]
              ELSE k \notin DOMAIN batchResp.predictions[i]

\* a successful batch of two different flights, one of them without airports
C8_Witness ==
    /\ BatchOk
    /\ Len(body.flights) >= 2
    /\ Flight(1) # Flight(2)
    /\ \E i \in 1..Len(body.flights) : "fromAirport" \notin DOMAIN Flight(i)
    /\ \E i \in 1..Len(body.flights) : EchoedKeys \subseteq DOMAIN Flight(i)

\* p is x floored at 30 dollars and rounded to the cent
IsFlooredRounded(p, x) ==
    /\ p % 10 = 0
    /\ p >= 30000
    /\ p - Max(x, 30000) <= 5
    /\ Max(x, 30000) - p <= 5

\* C9: batch prediction never applies the domestic override: every batch
\* item's price is the raw output floored at 30 and rounded to 2 decimals,
\* also on a domestic route with raw output above 80, whereas /predict of the
\* same request applies the override and returns at most 85.
C9_BatchSkipsOverride ==
    /\ BatchOk =>
         \A i \in 1..Len(body.flights) :
            IsFlooredRounded(batchResp.predictions[i].predictedPrice, raws[i].y)
    /\ \A i \in 1..Len(singleResp) :
         (SingleOk(i) /\ RouteIsDomestic(Flight(i)) /\ raws[i].y > 80000)
            => singleResp[i].predictedPrice <= 85000

\* The batch half of C9 alone.
BatchPriceIsFlooredRaw ==
    BatchOk =>
        \A i \in 1..Len(body.flights) :
            IsFlooredRounded(batchResp.predictions[i].predictedPrice, raws[i].y)

\* C10: in /predict the override's route test is_domestic is true exactly
\* when the extracted feature is_international is 0, for every request.
C10_DomesticTestsAgree ==
    \A i \in 1..Len(singleResp) :
        SingleOk(i) =>
            (is_domestic(Flight(i)) <=> singleResp[i].features.is_international = 0)

-----------------------------------------------------------------------------
(* Spec: the model reference and the persisted artifact *)

\* `model = None`, and a RandomForestRegressor object: gen tells the
\* constructed objects apart (0: fitted by an earlier run of the service),
\* fitted tells whether fit() has completed on it
NoneModel == [none |-> TRUE, gen |-> 0, fitted |-> FALSE]
Regressor(g, f) == [none |-> FALSE, gen |-> g, fitted |-> f]

\* the file at model_path: missing, unreadable, or a pickled regressor
Missing == [state |-> "missing", gen |-> 0, fitted |-> FALSE]
Corrupt == [state |-> "corrupt", gen |-> 0, fitted |-> FALSE]

\* os.path.exists(model_path)
Exists(a) == a.state # "missing"
\* joblib.load(model_path) returns instead of raising
Loads(a) == a.state = "valid"
\* the object joblib.load returns
Load(a) == Regressor(a.gen, a.fitted)

\* `model` after joblib.load raised, as it would be if the handler reset it
OnLoadFailureReset(m) == NoneModel
\* `model` after joblib.load raised: the except branch only logs
OnLoadFailure(m) == m

\* model = RandomForestRegressor(...): the global is bound before fit
NewRegressor(g) == Regressor(g, FALSE)
\* model.fit(X, y) on the object the global names
Fit(m) == [m EXCEPT !.fitted = TRUE]

\* the file as it would be if the regressor were pickled before being fitted
DumpUnfitted(m) == [state |-> "valid", gen |-> m.gen, fitted |-> FALSE]
\* joblib.dump(model, model_path)
Dump(m) == [state |-> "valid", gen |-> m.gen, fitted |-> m.fitted]

\* threads: the request threads of app.run, and the importing thread that
\* runs the module's start-up code
Workers == 1..MaxThreads
Main == MaxThreads + 1
Threads == 1..Main

Idle == [kind |-> "none", left |-> 0]
TrainPcs == {"tm_exists", "tm_load", "tm_construct", "tm_fit", "tm_dump"}
BeforeConstruct == {"tm_exists", "tm_load", "tm_construct"}
ReturnPcs == {"ok", "bad_request", "not_found", "error"}
Serving == pc[Main] = "serving"

Init ==
    /\ model = NoneModel
    /\ artifact \in {Missing, Corrupt, Dump(Regressor(0, TRUE))}
    /\ pc = [t \in Threads |-> IF t = Main THEN "tm_exists" ELSE "idle"]
    /\ req = [t \in Threads |-> IF t = Main THEN [kind |-> "startup", left |-> 0] ELSE Idle]
    /\ started = [t \in Threads |-> NoneModel]
    /\ nextGen = 0
    /\ body = EmptyDict
    /\ raws = << >>
    /\ batchResp = NoResp
    /\ singleResp = << >>

\* where train_model's caller goes on: after a return (ok), or with the
\* exception train_model let through, which the handlers answer with 500
\* and which ends the import at start-up
AfterTrain(t, ok) ==
    CASE req[t].kind = "startup" -> IF ok THEN "serving" ELSE "crashed"
      [] req[t].kind = "predict" -> IF ok THEN "p_infer" ELSE "error"
      [] req[t].kind = "batch"   -> IF ok THEN "b_infer" ELSE "error"
      [] OTHER                   -> IF ok THEN "ok" ELSE "error"

\* train_model returns or raises to its caller
Leave(t, ok) ==
    /\ pc' = [pc EXCEPT ![t] = AfterTrain(t, ok)]
    /\ started' = [started EXCEPT ![t] = NoneModel]

\* train_model: if os.path.exists(model_path)
TmExists(t) ==
    /\ pc[t] = "tm_exists"
    /\ pc' = [pc EXCEPT ![t] = IF Exists(artifact) THEN "tm_load" ELSE "tm_construct"]
    /\ UNCHANGED <<model, artifact, req, started, nextGen>>
    /\ UNCHANGED priceVars

\* train_model: model = joblib.load(model_path); return -- or the except branch
TmLoad(t) ==
    /\ pc[t] = "tm_load"
    /\ IF Loads(artifact)
       THEN /\ model' = Load(artifact)
            /\ Leave(t, TRUE)
       ELSE /\ model' = OnLoadFailure(model)
            /\ pc' = [pc EXCEPT ![t] = "tm_construct"]
            /\ UNCHANGED started
    /\ UNCHANGED <<artifact, req, nextGen>>
    /\ UNCHANGED priceVars

\* train_model: the synthetic data, then model = RandomForestRegressor(...)
TmConstruct(t) ==
    /\ pc[t] = "tm_construct"
    /\ nextGen' = nextGen + 1
    /\ model' = NewRegressor(nextGen + 1)
    /\ pc' = [pc EXCEPT ![t] = "tm_fit"]
    /\ UNCHANGED <<artifact, req, started>>
    /\ UNCHANGED priceVars

\* train_model: model.fit(X, y), which returns or raises
TmFit(t) ==
    /\ pc[t] = "tm_fit"
    /\ \E ok \in BOOLEAN :
         IF ok
         THEN /\ model' = Fit(model)
              /\ pc' = [pc EXCEPT ![t] = "tm_dump"]
              /\ UNCHANGED started
         ELSE /\ model' = model
              /\ Leave(t, FALSE)
    /\ UNCHANGED <<artifact, req, nextGen>>
    /\ UNCHANGED priceVars

\* train_model: os.makedirs, joblib.dump(model, model_path), which returns or
\* raises; a dump that raises leaves the old file or a partial one
TmDump(t) ==
    /\ pc[t] = "tm_dump"
    /\ \E ok \in BOOLEAN :
         IF ok
         THEN /\ artifact' = Dump(model)
              /\ Leave(t, TRUE)
         ELSE /\ artifact' \in {artifact, Corrupt}
              /\ Leave(t, FALSE)
    /\ UNCHANGED <<model, req, nextGen>>
    /\ UNCHANGED priceVars

train_model(t) ==
    \/ TmExists(t)
    \/ TmLoad(t)
    \/ TmConstruct(t)
    \/ TmFit(t)
    \/ TmDump(t)

-----------------------------------------------------------------------------
(* The handlers, one request thread each *)

\* a request thread takes up a request and runs its handler up to `next`
Begin(t, kind, n, next) ==
    /\ Serving
    /\ pc[t] = "idle"
    /\ pc' = [pc EXCEPT ![t] = next]
    /\ req' = [req EXCEPT ![t] = [kind |-> kind, left |-> n]]

\* a handler calls train_model()
CallTrain(t) ==
    /\ pc' = [pc EXCEPT ![t] = "tm_exists"]
    /\ started' = [started EXCEPT ![t] = model]

\* the handler has returned its response; the thread is free again
Respond(t) ==
    /\ pc[t] \in ReturnPcs
    /\ pc' = [pc EXCEPT ![t] = "idle"]
    /\ req' = [req EXCEPT ![t] = Idle]
    /\ UNCHANGED <<model, artifact, started, nextGen>>
    /\ UNCHANGED priceVars

\* GET /health: always 200, with model_loaded = (model is not None)
health(t) ==
    /\ Begin(t, "health", 0, "ok")
    /\ UNCHANGED <<model, artifact, started, nextGen>>
    /\ UNCHANGED priceVars

\* GET /model/info: 404 when model is None; reading feature_importances_ of
\* a regressor that is not fitted raises, which Flask answers with 500
model_info(t) ==
    /\ Begin(t, "info", 0, IF model = NoneModel THEN "not_found"
                           ELSE IF model.fitted THEN "ok" ELSE "error")
    /\ UNCHANGED <<model, artifact, started, nextGen>>
    /\ UNCHANGED priceVars

\* POST /model/retrain: train_model() under try/except.  The guard keeps the
\* number of regressors constructed within MaxGen.
retrain(t) ==
    /\ nextGen + Cardinality({u \in Threads : pc[u] \in BeforeConstruct}) < MaxGen
    /\ Begin(t, "retrain", 0, "tm_exists")
    /\ started' = [started EXCEPT ![t] = model]
    /\ UNCHANGED <<model, artifact, nextGen>>
    /\ UNCHANGED priceVars

\* POST /predict, up to `if model is None`: 400 for an empty body
PredictBegin(t) ==
    /\ \E empty \in BOOLEAN :
         Begin(t, "predict", 1, IF empty THEN "bad_request" ELSE "p_check")
    /\ UNCHANGED <<model, artifact, started, nextGen>>
    /\ UNCHANGED priceVars

\* predict: if model is None: train_model()
PredictCheck(t) ==
    /\ pc[t] = "p_check"
    /\ IF model = NoneModel
       THEN CallTrain(t)
       ELSE /\ pc' = [pc EXCEPT ![t] = "p_infer"]
            /\ UNCHANGED started
    /\ UNCHANGED <<model, artifact, req, nextGen>>
    /\ UNCHANGED priceVars

\* predict: model.predict(X)[0] and the rest of the handler; inference on
\* None or on a regressor that is not fitted raises and is answered with 500
PredictInfer(t) ==
    /\ pc[t] = "p_infer"
    /\ pc' = [pc EXCEPT ![t] = IF model # NoneModel /\ model.fitted THEN "ok" ELSE "error"]
    /\ UNCHANGED <<model, artifact, req, started, nextGen>>
    /\ UNCHANGED priceVars

\* POST /predict/batch, up to the loop: 400 without 'flights', 200 for an
\* empty list
BatchBegin(t) ==
    /\ \E n \in 0..MaxFlights, nokey \in BOOLEAN :
         Begin(t, "batch", IF nokey THEN 0 ELSE n,
               IF nokey THEN "bad_request" ELSE IF n = 0 THEN "ok" ELSE "b_check")
    /\ UNCHANGED <<model, artifact, started, nextGen>>
    /\ UNCHANGED priceVars

\* predict_batch, per flight: if model is None: train_model()
BatchCheck(t) ==
    /\ pc[t] = "b_check"
    /\ IF model = NoneModel
       THEN CallTrain(t)
       ELSE /\ pc' = [pc EXCEPT ![t] = "b_infer"]
            /\ UNCHANGED started
    /\ UNCHANGED <<model, artifact, req, nextGen>>
    /\ UNCHANGED priceVars

\* predict_batch, per flight: model.predict(X)[0] and the append; after the
\* last flight the handler returns the predictions
BatchInfer(t) ==
    /\ pc[t] = "b_infer"
    /\ IF model # NoneModel /\ model.fitted
       THEN /\ pc' = [pc EXCEPT ![t] = IF req[t].left > 1 THEN "b_check" ELSE "ok"]
            /\ req' = [req EXCEPT ![t].left = @ - 1]
       ELSE /\ pc' = [pc EXCEPT ![t] = "error"]
            /\ UNCHANGED req
    /\ UNCHANGED <<model, artifact, started, nextGen>>
    /\ UNCHANGED priceVars

PredictRequest(t) == PredictBegin(t) \/ PredictCheck(t) \/ PredictInfer(t)
BatchRequest(t) == BatchBegin(t) \/ BatchCheck(t) \/ BatchInfer(t)

\* The file at model_path is removed or damaged from outside the process,
\* which is what the os.path.exists test and the except branch allow for.
ArtifactLost ==
    /\ Serving
    /\ artifact.state = "valid"
    /\ artifact' \in {Missing, Corrupt}
    /\ UNCHANGED <<model, pc, req, started, nextGen>>
    /\ UNCHANGED priceVars

Next ==
    \/ \E t \in Threads : train_model(t)
    \/ \E t \in Workers :
          \/ health(t)
          \/ model_info(t)
          \/ retrain(t)
          \/ PredictRequest(t)
          \/ BatchRequest(t)
          \/ Respond(t)
    \/ ArtifactLost

Spec == Init /\ [][Next]_vars

-----------------------------------------------------------------------------
(* Properties of the model reference and the artifact (Spec) *)

InTrainModel(t) == pc[t] \in TrainPcs
AtInference(t) == pc[t] \in {"p_infer", "b_infer"}
\* thread t takes a step of its own
Moves(t) == pc'[t] # pc[t]

\* C2: retrain, in any state, regenerates the data and refits: when it
\* returns successfully it returns from the end of training, the in-memory
\* model is fitted and the artifact has been overwritten by it; it never
\* returns from the branch that reloads the artifact.
C2_RetrainAlwaysRefits ==
    [][\A t \in Workers :
          (req[t].kind = "retrain" /\ InTrainModel(t) /\ pc'[t] = "ok")
          => /\ pc[t] = "tm_dump"
             /\ model'.fitted
             /\ artifact' = [state |-> "valid", gen |-> model'.gen, fitted |-> TRUE]]_vars

\* C3: while a training run is going on, a prediction that is about to run
\* its inference finds the shared reference on a fully fitted model, the
\* previous one or the new one, never on one constructed and not yet fitted.
C3_PredictorsSeeFittedModel ==
    \A t \in Workers : AtInference(t) => (model # NoneModel /\ model.fitted)

\* C4: if a load-or-train run of a request fails, the failure is reported
\* and the model reference has the value it had before the run.
C4_FailedRunLeavesModel ==
    [][\A t \in Workers :
          (InTrainModel(t) /\ pc'[t] = "error") => model' = started[t]]_vars

\* C5: once the model reference is set it is never unset again, whatever
\* predict, batch predict, retrain, health and info requests follow.
C5_NeverUnset == [][model # NoneModel => model' # NoneModel]_vars

\* the service is Loaded, requests have replaced the model it started with
\* by a second regressor, and a prediction is being answered with 200
C5_Witness ==
    /\ Serving
    /\ model = [none |-> FALSE, gen |-> 2, fitted |-> TRUE]
    /\ \E t \in Workers : req[t].kind = "predict" /\ pc[t] = "ok"

\* thread t's step is the successful end of train_model's training branch
TrainingSucceeds(t) == pc[t] = "tm_dump" /\ pc'[t] \in {"serving", "p_infer", "b_infer", "ok"}

\* C6: load-or-train.  If the artifact exists and deserialises, the model
\* becomes Loaded with the artifact's content, the run ends there and
\* neither constructs a regressor nor writes the artifact.  If the artifact
\* is missing or does not deserialise, the run goes on to training, and when
\* training ends successfully the model is Loaded and the artifact is a
\* valid file holding that model (a fitted one at start-up, which runs alone).
C6_LoadOrTrain ==
    [][\A t \in Threads :
          /\ (pc[t] = "tm_load" /\ Moves(t) /\ artifact.state = "valid")
                => /\ model' = [none |-> FALSE, gen |-> artifact.gen,
                                fitted |-> artifact.fitted]
                   /\ ~InTrainModel(t)'
                   /\ pc'[t] # "error"
                   /\ artifact' = artifact
                   /\ nextGen' = nextGen
          /\ (pc[t] = "tm_exists" /\ Moves(t) /\ artifact.state = "missing")
                => pc'[t] = "tm_construct"
          /\ (pc[t] = "tm_load" /\ Moves(t) /\ artifact.state # "valid")
                => pc'[t] = "tm_construct"
          /\ TrainingSucceeds(t)
                => /\ model' # NoneModel
                   /\ artifact'.state = "valid"
                   /\ artifact'.gen = model'.gen
                   /\ artifact'.fitted = model'.fitted
                   /\ (t = Main => model'.fitted)]_vars

\* start-up and a retrain have both ended successfully, one of the two runs
\* by training and saving regressor 1, the other by loading the artifact
C6_Witness ==
    /\ Serving
    /\ nextGen = 1
    /\ model = [none |-> FALSE, gen |-> 1, fitted |-> TRUE]
    /\ artifact = [state |-> "valid", gen |-> 1, fitted |-> TRUE]
    /\ \E t \in Workers : req[t].kind = "retrain" /\ pc[t] = "ok"

\* C7: at most one load-or-train run is executing at any time.
C7_OneTrainingRun ==
    Cardinality({t \in Threads : InTrainModel(t)}) <= 1

=============================================================================
